---- MODULE Spec2Model ----
(***************************************************************************)
(* Model of src/main.py: a Streamlit script that connects to Gmail,        *)
(* lists unread mail, summarises it, drafts replies and sends them.        *)
(*                                                                         *)
(* Five specifications share the variables of this module:                 *)
(*   SpecRetry  the retry_with_exponential_backoff wrapper around one      *)
(*              fallible operation;                                        *)
(*   SpecAuth   the credential lifecycle over repeated script passes;      *)
(*   SpecMail   get_or_create_label, send_email and get_unread_emails      *)
(*              against the provider;                                      *)
(*   SpecRace   two callers of get_or_create_label on one account;         *)
(*   SpecUI     the Main App UI: summaries, drafts, regenerate and send.   *)
(* Each specification keeps the variables of the others constant.          *)
(***************************************************************************)
EXTENDS Integers, Sequences, FiniteSets, TLC

VARIABLES
    \* ---- retry wrapper (one call of wrapper(*args)) ----
    policy,      \* the decorator arguments of the call site
    plan,        \* the operation fails on its first `plan` invocations
    value,       \* what the operation returns when it succeeds
    attempt,     \* loop variable of `for attempt in range(max_retries)`
    delay,       \* local `delay`, in time units
    waits,       \* the arguments of time.sleep so far, in time units
    calls,       \* number of invocations of func so far
    result       \* outcome of the wrapper call

retryVars == <<policy, plan, value, attempt, delay, waits, calls, result>>

VARIABLES
    \* ---- st.session_state ----
    creds,          \* st.session_state.creds
    service,        \* st.session_state.service: token the handle was built on
    auth_url,       \* st.session_state.auth_url
    flow,           \* st.session_state.flow
    auth_started,   \* st.session_state.auth_started
    \* ---- outside the session ----
    store,          \* the credential pickled in token.pickle
    expiredToks,    \* tokens whose expiry has passed
    nextTok,        \* next token the identity provider issues
    consumed,       \* authorization codes the provider has exchanged
    \* ---- widgets ----
    codeInput,      \* value of the "Paste authorization code here:" input
    connectClicked, \* the Connect button triggered this pass
    \* ---- the script pass ----
    pc,             \* section of the script about to run, or "idle"
    loadOutcome,    \* branch taken by "Load or Refresh Credentials"
    connectShown,   \* the Connect button was rendered in this pass
    codeShown,      \* the code input was rendered in this pass
    exchange,       \* the fetch_token call of this pass, if any
    authError,      \* authenticate_manual showed "Authentication failed"
    mailIssued,     \* get_unread_emails was called in this pass
    authedBy        \* the code whose exchange authenticated this session

sessionVars == <<creds, service, auth_url, flow, auth_started>>
envVars == <<store, expiredToks, nextTok, consumed>>
widgetVars == <<codeInput, connectClicked>>
passVars == <<pc, loadOutcome, connectShown, codeShown, exchange, authError,
              mailIssued, authedBy>>
authVars == <<sessionVars, envVars, widgetVars, passVars>>

VARIABLES
    \* ---- the mail provider ----
    labels,       \* the account's labels: records [id, name]
    nextLabelId,  \* id the provider gives the next created label
    unread,       \* messages carrying the UNREAD marker
    tags,         \* message -> ids of the user labels it carries
    \* ---- send_email and get_or_create_label in progress ----
    mpc,          \* provider call about to be made, or "idle"
    sThread,      \* send_email: thread_id
    sAttempt,     \* send_email's wrapper: attempt
    sends,        \* messages.send calls that succeeded in the current call
    labelId,      \* send_email: label_id
    lName,        \* get_or_create_label: label_name
    lAttempt,     \* get_or_create_label's wrapper: attempt
    lCaller,      \* who called get_or_create_label
    lastCall,     \* how the last outermost call ended
    \* ---- get_unread_emails in progress ----
    fAttempt,     \* get_unread_emails' wrapper: attempt
    fListed,      \* results.get('messages', [])
    fPos,         \* index in fListed of the message fetched next
    emails,       \* the list `emails`, as message ids
    \* ---- observations ----
    sendCalls,    \* messages.send calls issued by the current call
    listCalls,    \* labels.list calls issued by the current call
    snap,         \* unread and tags when the current call began
    returned      \* lower-cased name -> ids get_or_create_label returned

providerVars == <<labels, nextLabelId, unread, tags>>
sendVars == <<sThread, sAttempt, sends, labelId>>
labelVars == <<lName, lAttempt, lCaller>>
fetchVars == <<fAttempt, fListed, fPos, emails>>
countVars == <<sendCalls, listCalls>>
mailVars == <<providerVars, mpc, sendVars, labelVars, lastCall, fetchVars,
              countVars, snap, returned>>

VARIABLES
    \* ---- callers racing in get_or_create_label ----
    racers        \* caller -> its position, attempt and outcome

raceVars == <<racers>>

VARIABLES
    \* ---- the Main App UI over repeated script passes ----
    upc,          \* section of the Main App UI about to run, or "idle"
    click,        \* the button that triggered this pass
    uUnread,      \* messages carrying UNREAD in the mailbox
    uEmails,      \* `emails` of this pass
    uPos,         \* position of the loop over `emails`
    uFetchFail,   \* the provider call on which get_unread_emails gave up
    rendered,     \* messages whose section was rendered in this pass
    summaries,    \* st.session_state["summary_<id>"], by message id
    replies,      \* st.session_state["reply_<id>"], by message id
    lastSend,     \* the last send_email call: message and `to`
    \* ---- summarize_email / generate_reply in progress ----
    gFn,          \* the function called, and what for
    gTry,         \* its wrapper: attempt
    gCalls,       \* llm.invoke calls made by the current call
    gWaits,       \* time.sleep calls made by the current call
    gResult       \* how the last call ended

sessionCache == <<summaries, replies>>
llmVars == <<gFn, gTry, gCalls, gWaits, gResult>>
uiVars == <<upc, click, uUnread, uEmails, uPos, uFetchFail, rendered,
            sessionCache, lastSend, llmVars>>

vars == <<retryVars, authVars, mailVars, raceVars, uiVars>>

notRetryVars == <<authVars, mailVars, raceVars, uiVars>>
notAuthVars == <<retryVars, mailVars, raceVars, uiVars>>
notMailVars == <<retryVars, authVars, raceVars, uiVars>>
notUiVars == <<retryVars, authVars, mailVars, raceVars>>

-----------------------------------------------------------------------------
(* Bounds *)

\* random.uniform(0, delay * 0.1) is sampled at JitterSteps + 1 evenly
\* spaced points, both ends included.
JitterSteps == 2

\* The identity provider issues tokens 1..MaxTokens.
MaxTokens == 3

-----------------------------------------------------------------------------
(* Time: one unit is 1 / (10 * JitterSteps) second, so that every sampled
   jitter is a whole number of units. *)

Sec(s) == s * 10 * JitterSteps

Min(a, b) == IF a <= b THEN a ELSE b

RECURSIVE Pow2(_)
Pow2(n) == IF n = 0 THEN 1 ELSE 2 * Pow2(n - 1)

-----------------------------------------------------------------------------
(* Values of the session state and of the credential file *)

\* A credential: the token it carries and whether it has a refresh token.
NoCreds == [tok |-> 0, refresh_token |-> FALSE]
NoService == 0
NoFlow == 0
NoUrl == 0
NoCode == ""
Codes == {"c1", "c2"}
NoExchange == [code |-> NoCode, status |-> "none"]

\* The variables of the credential lifecycle while another specification runs.
AuthParked ==
    /\ creds = NoCreds /\ service = NoService /\ auth_url = NoUrl
    /\ flow = NoFlow /\ auth_started = FALSE
    /\ store = NoCreds /\ expiredToks = {} /\ nextTok = 1 /\ consumed = {}
    /\ codeInput = NoCode /\ connectClicked = FALSE
    /\ pc = "off" /\ loadOutcome = "none" /\ connectShown = FALSE
    /\ codeShown = FALSE /\ exchange = NoExchange /\ authError = FALSE
    /\ mailIssued = FALSE /\ authedBy = NoCode

-----------------------------------------------------------------------------
(* Values of the mailbox *)

Msgs == {"m1", "m2", "m3"}
Threads == {"t1", "t2"}
NoThread == "none"

\* msg['threadId'] of each message: m2 and m3 are one conversation.
ThreadOf == [m \in Msgs |-> IF m = "m1" THEN "t1" ELSE "t2"]

\* Label names, as sequences of characters.
Replied == <<"R", "e", "p", "l", "i", "e", "d">>
repliedLower == <<"r", "e", "p", "l", "i", "e", "d">>
REPLIEDUpper == <<"R", "E", "P", "L", "I", "E", "D">>
Work == <<"W", "o", "r", "k">>
LabelNames == {Replied, repliedLower, REPLIEDUpper, Work}

NoLabelId == 0
NoCall == [fn |-> "none", status |-> "none", thread |-> NoThread,
           ret |-> NoLabelId, retries |-> 0]

\* The variables of the mailbox while another specification runs.
MailParked ==
    /\ labels = {} /\ nextLabelId = 1 /\ unread = {}
    /\ tags = [m \in Msgs |-> {}]
    /\ mpc = "off" /\ sThread = NoThread /\ sAttempt = 0 /\ sends = 0
    /\ labelId = NoLabelId /\ lName = <<>> /\ lAttempt = 0 /\ lCaller = "none"
    /\ lastCall = NoCall
    /\ snap = [unread |-> {}, tags |-> [m \in Msgs |-> {}]]
    /\ returned = <<>>
    /\ fAttempt = 0 /\ fListed = <<>> /\ fPos = 0 /\ emails = <<>>
    /\ sendCalls = 0 /\ listCalls = 0

\* The racing callers while another specification runs.
RaceParked == racers = <<>>

NoClick == [kind |-> "none", msg |-> "none"]
NoSend == [msg |-> "none", to |-> <<>>]
NoFn == [name |-> "none", why |-> "none"]
NoResult == [fn |-> "none", status |-> "none", val |-> <<>>]

UiParked ==
    /\ upc = "off" /\ click = NoClick /\ uUnread = {} /\ uEmails = <<>>
    /\ uPos = 0 /\ uFetchFail = "none" /\ rendered = {}
    /\ summaries = <<>> /\ replies = <<>> /\ lastSend = NoSend
    /\ gFn = NoFn /\ gTry = 0 /\ gCalls = 0 /\ gWaits = 0 /\ gResult = NoResult

-----------------------------------------------------------------------------
(* retry_with_exponential_backoff *)

DefaultMaxDelay == 60

\* The decorator arguments used at the call sites.
PolicyGmail == [max_retries |-> 5, base_delay |-> 15, max_delay |-> DefaultMaxDelay]
PolicyLLM   == [max_retries |-> 3, base_delay |-> 10, max_delay |-> DefaultMaxDelay]

Policies == {PolicyGmail, PolicyLLM}

Values == {"v1", "v2"}

\* `if attempt == max_retries - 1: raise`
LastAttemptOffByOne(a, max_retries) == a = max_retries
LastAttemptEarly(a, max_retries) == a = max_retries - 2
LastAttempt(a, max_retries) == a = max_retries - 1

\* The values random.uniform(0, delay * 0.1) is sampled at.
Jitters(d) == {k * (d \div (10 * JitterSteps)) : k \in 0..JitterSteps}

\* wait = delay + jitter; wait = min(wait, max_delay)
WaitForCapBeforeJitter(d, j, max_delay) == Min(d, Sec(max_delay)) + j
WaitFor(d, j, max_delay) == Min(d + j, Sec(max_delay))

\* delay *= 2
NextDelay(d) == d * 2

\* The wrapped operation: its k-th invocation (k = 1, 2, ...) raises error k
\* while k <= plan, and returns `value` afterwards.
Operation(k) ==
    IF k <= plan THEN [ok |-> FALSE, err |-> k]
                 ELSE [ok |-> TRUE, val |-> value]

Running == [status |-> "running"]

\* The variables of the wrapper while another specification runs.
RetryParked ==
    /\ policy = PolicyGmail /\ plan = 0 /\ value = "v1" /\ attempt = 0
    /\ delay = 0 /\ waits = <<>> /\ calls = 0 /\ result = Running

RetryInit ==
    /\ policy \in Policies
    /\ plan \in 0..(policy.max_retries + 1)
    /\ value \in Values
    /\ attempt = 0
    /\ delay = Sec(policy.base_delay)
    /\ waits = <<>>
    /\ calls = 0
    /\ result = Running
    /\ AuthParked
    /\ MailParked
    /\ RaceParked
    /\ UiParked

\* `return func(*args, **kwargs)`
WrapperReturn ==
    /\ result = Running
    /\ attempt < policy.max_retries
    /\ Operation(calls + 1).ok
    /\ calls' = calls + 1
    /\ result' = [status |-> "returned", val |-> Operation(calls + 1).val]
    /\ UNCHANGED <<policy, plan, value, attempt, delay, waits>>
    /\ UNCHANGED notRetryVars

\* except on the last attempt: `raise`
WrapperRaise ==
    /\ result = Running
    /\ attempt < policy.max_retries
    /\ ~Operation(calls + 1).ok
    /\ LastAttempt(attempt, policy.max_retries)
    /\ calls' = calls + 1
    /\ result' = [status |-> "raised", err |-> Operation(calls + 1).err]
    /\ UNCHANGED <<policy, plan, value, attempt, delay, waits>>
    /\ UNCHANGED notRetryVars

\* except on an earlier attempt: warn, sleep, double the delay, loop. When
\* range(max_retries) is exhausted the wrapper falls off its end: None.
WrapperRetry ==
    /\ result = Running
    /\ attempt < policy.max_retries
    /\ ~Operation(calls + 1).ok
    /\ ~LastAttempt(attempt, policy.max_retries)
    /\ \E j \in Jitters(delay) :
          waits' = Append(waits, WaitFor(delay, j, policy.max_delay))
    /\ calls' = calls + 1
    /\ delay' = NextDelay(delay)
    /\ attempt' = attempt + 1
    /\ result' = IF attempt + 1 < policy.max_retries
                    THEN Running
                    ELSE [status |-> "returned", val |-> "None"]
    /\ UNCHANGED <<policy, plan, value>>
    /\ UNCHANGED notRetryVars

RetryNext == WrapperReturn \/ WrapperRaise \/ WrapperRetry

SpecRetry == RetryInit /\ [][RetryNext]_vars

-----------------------------------------------------------------------------
(* Claims about the retry wrapper, checked under SpecRetry *)

WrapperDone == result.status # "running"

\* C1 (as stated): for every n with 0 <= n <= max_retries, an operation that
\* fails n times and then succeeds makes the wrapper return the operation's
\* value after exactly n waits.
C1_AsStated ==
    (WrapperDone /\ plan <= policy.max_retries) =>
        /\ result = [status |-> "returned", val |-> value]
        /\ Len(waits) = plan

\* C1 (amended): the same for every n with 0 <= n <= max_retries - 1; the
\* wrapper invokes the operation n + 1 times.
C1_ReturnsAfterNFailures ==
    (WrapperDone /\ plan <= policy.max_retries - 1) =>
        /\ result = [status |-> "returned", val |-> value]
        /\ Len(waits) = plan
        /\ calls = plan + 1

C1_Witness ==
    /\ plan = policy.max_retries - 1
    /\ result = [status |-> "returned", val |-> value]
    /\ Len(waits) = policy.max_retries - 1

\* C2 (as stated): an operation that fails on every attempt is given up once
\* it has failed max_retries + 1 times, and that last failure is raised.
C2_AsStated ==
    (WrapperDone /\ plan = policy.max_retries + 1) =>
        /\ calls = policy.max_retries + 1
        /\ result = [status |-> "raised", err |-> calls]

\* C2 (amended): an operation that fails on every attempt is given up once it
\* has failed max_retries times; the wrapper then raises that last failure
\* itself, never returns a value, and makes no further attempt or wait.
C2_RaisesAfterMaxRetriesFailures ==
    (WrapperDone /\ plan >= policy.max_retries) =>
        /\ calls = policy.max_retries
        /\ Len(waits) = policy.max_retries - 1
        /\ result = [status |-> "raised", err |-> policy.max_retries]
        /\ ~ENABLED RetryNext

C2_Witness ==
    /\ plan = policy.max_retries + 1
    /\ result.status = "raised"
    /\ calls = policy.max_retries

\* C3 (as stated): the i-th wait of a call is at least base_delay * 2^(i-1)
\* and at most max_delay.
C3_AsStated ==
    \A i \in 1..Len(waits) :
        /\ waits[i] >= Sec(policy.base_delay * Pow2(i - 1))
        /\ waits[i] <= Sec(policy.max_delay)

\* C3 (amended): the i-th wait of a call is at least
\* min(base_delay * 2^(i-1), max_delay) and at most max_delay.
C3_WaitsWithinBounds ==
    \A i \in 1..Len(waits) :
        /\ waits[i] >= Min(Sec(policy.base_delay * Pow2(i - 1)), Sec(policy.max_delay))
        /\ waits[i] <= Sec(policy.max_delay)

\* A fourth wait of a base_delay = 15 call: the doubled delay (120) is capped.
C3_Witness ==
    /\ policy = PolicyGmail
    /\ Len(waits) = 4
    /\ waits[4] = Sec(policy.max_delay)
    /\ waits[1] > Sec(policy.base_delay)

-----------------------------------------------------------------------------
(* Credentials handling and the script pass *)

\* creds_valid(creds): `creds and creds.valid`
creds_valid(c) == c # NoCreds /\ c.tok \notin expiredToks

\* `creds and creds.expired and creds.refresh_token`
Refreshable(c) == c # NoCreds /\ c.tok \in expiredToks /\ c.refresh_token

\* creds.refresh(Request()): the credential carries a newly issued token
Refreshed(c) == [c EXCEPT !.tok = nextTok]

\* save_creds(creds): the content of token.pickle afterwards
save_credsSkipped(c) == store
save_creds(c) == c

\* build_service(creds)
build_service(c) == c.tok

\* What authenticate_manual leaves in session_state.flow / auth_url when the
\* flow is constructed without error: made once, then reused.
FlowAfterRebuilt == IF flow = 1 THEN 2 ELSE 1
FlowAfter == IF flow = NoFlow THEN 1 ELSE flow
UrlAfter == IF flow = NoFlow THEN 1 ELSE auth_url

\* The state of the AuthSession of spec section 4.3, read off the session.
AuthState ==
    IF creds # NoCreds THEN "Authenticated"
    ELSE IF auth_started /\ flow # NoFlow THEN "AwaitingUserCode"
    ELSE "Unauthenticated"

\* Session state initialization, on the first pass of a session.
FreshSession ==
    /\ creds = NoCreds /\ service = NoService /\ auth_url = NoUrl
    /\ flow = NoFlow /\ auth_started = FALSE

AuthInit ==
    /\ FreshSession
    /\ \E r \in BOOLEAN, t \in 0..1 :
          store = IF t = 0 THEN NoCreds ELSE [tok |-> 1, refresh_token |-> r]
    /\ expiredToks \in SUBSET {1}
    /\ (store = NoCreds => expiredToks = {})
    /\ nextTok = 2
    /\ consumed = {}
    /\ codeInput = NoCode /\ connectClicked = FALSE
    /\ pc = "load" /\ loadOutcome = "none" /\ connectShown = FALSE
    /\ codeShown = FALSE /\ exchange = NoExchange /\ authError = FALSE
    /\ mailIssued = FALSE /\ authedBy = NoCode
    /\ RetryParked
    /\ MailParked
    /\ RaceParked
    /\ UiParked

\* What the start of a pass resets: nothing has been rendered or called yet.
BeginPass ==
    /\ connectShown' = FALSE /\ codeShown' = FALSE /\ exchange' = NoExchange
    /\ authError' = FALSE /\ mailIssued' = FALSE

\* ---- Load or Refresh Credentials (top of the script) ----

\* `if creds_valid(creds)`
LoadValid ==
    /\ pc = "load"
    /\ creds_valid(store)
    /\ creds' = store
    /\ service' = build_service(store)
    /\ loadOutcome' = "valid"
    /\ pc' = "connect"
    /\ BeginPass
    /\ UNCHANGED <<auth_url, flow, auth_started, envVars, widgetVars, authedBy>>
    /\ UNCHANGED notAuthVars

\* `elif creds and creds.expired and creds.refresh_token`, refresh succeeds
LoadRefreshOk ==
    /\ pc = "load"
    /\ ~creds_valid(store)
    /\ Refreshable(store)
    /\ nextTok <= MaxTokens
    /\ store' = save_creds(Refreshed(store))
    /\ creds' = Refreshed(store)
    /\ service' = build_service(Refreshed(store))
    /\ nextTok' = nextTok + 1
    /\ loadOutcome' = "refreshed"
    /\ pc' = "connect"
    /\ BeginPass
    /\ UNCHANGED <<auth_url, flow, auth_started, expiredToks, consumed,
                   widgetVars, authedBy>>
    /\ UNCHANGED notAuthVars

\* The same branch when creds.refresh raises: nothing catches it, the pass
\* ends there. A pass stopped before the code input is rendered may keep or
\* drop the input's value, depending on the Streamlit version.
LoadRefreshFail ==
    /\ pc = "load"
    /\ ~creds_valid(store)
    /\ Refreshable(store)
    /\ loadOutcome' = "refresh_failed"
    /\ pc' = "idle"
    /\ BeginPass
    /\ connectClicked' = FALSE
    /\ codeInput' \in {codeInput, NoCode}
    /\ UNCHANGED <<sessionVars, envVars, authedBy>>
    /\ UNCHANGED notAuthVars

\* Neither branch: no file, or an expired credential without refresh token.
LoadNone ==
    /\ pc = "load"
    /\ ~creds_valid(store)
    /\ ~Refreshable(store)
    /\ loadOutcome' = IF store = NoCreds THEN "absent" ELSE "expired_norefresh"
    /\ pc' = "connect"
    /\ BeginPass
    /\ UNCHANGED <<sessionVars, envVars, widgetVars, authedBy>>
    /\ UNCHANGED notAuthVars

\* ---- Gmail Connection UI ----

\* `if st.session_state.creds is None: if st.button(...)`: clicked, so
\* auth_started is set and st.experimental_rerun() restarts the script.
ConnectClicked ==
    /\ pc = "connect"
    /\ creds = NoCreds
    /\ connectClicked
    /\ auth_started' = TRUE
    /\ connectShown' = TRUE
    /\ connectClicked' = FALSE
    /\ codeInput' \in {codeInput, NoCode}
    /\ pc' = "load"
    /\ UNCHANGED <<creds, service, auth_url, flow, envVars, loadOutcome,
                   codeShown, exchange, authError, mailIssued, authedBy>>
    /\ UNCHANGED notAuthVars

\* The button is rendered and was not clicked, or is not rendered at all.
ConnectPass ==
    /\ pc = "connect"
    /\ ~(creds = NoCreds /\ connectClicked)
    /\ connectShown' = (creds = NoCreds)
    /\ pc' = "auth"
    /\ UNCHANGED <<sessionVars, envVars, widgetVars, loadOutcome, codeShown,
                   exchange, authError, mailIssued, authedBy>>
    /\ UNCHANGED notAuthVars

\* ---- `if st.session_state.auth_started: authenticate_manual()` ----

AuthSkip ==
    /\ pc = "auth"
    /\ ~auth_started
    /\ pc' = "main"
    /\ UNCHANGED <<sessionVars, envVars, widgetVars, loadOutcome, connectShown,
                   codeShown, exchange, authError, mailIssued, authedBy>>
    /\ UNCHANGED notAuthVars

\* InstalledAppFlow.from_client_secrets_file raises (no usable
\* credentials.json): caught, "Authentication failed" is shown.
AuthFlowError ==
    /\ pc = "auth"
    /\ auth_started
    /\ flow = NoFlow
    /\ authError' = TRUE
    /\ pc' = "main"
    /\ UNCHANGED <<sessionVars, envVars, widgetVars, loadOutcome, connectShown,
                   codeShown, exchange, mailIssued, authedBy>>
    /\ UNCHANGED notAuthVars

\* The link and the code input are rendered; no code has been entered.
AuthPrompt ==
    /\ pc = "auth"
    /\ auth_started
    /\ codeInput = NoCode
    /\ flow' = FlowAfter
    /\ auth_url' = UrlAfter
    /\ codeShown' = TRUE
    /\ pc' = "main"
    /\ UNCHANGED <<creds, service, auth_started, envVars, widgetVars,
                   loadOutcome, connectShown, exchange, authError, mailIssued,
                   authedBy>>
    /\ UNCHANGED notAuthVars

\* `if code:` and flow.fetch_token(code=code) raises: caught, error shown.
AuthExchangeFail ==
    /\ pc = "auth"
    /\ auth_started
    /\ codeInput # NoCode
    /\ flow' = FlowAfter
    /\ auth_url' = UrlAfter
    /\ codeShown' = TRUE
    /\ exchange' = [code |-> codeInput, status |-> "failed"]
    /\ authError' = TRUE
    /\ pc' = "main"
    /\ UNCHANGED <<creds, service, auth_started, envVars, widgetVars,
                   loadOutcome, connectShown, mailIssued, authedBy>>
    /\ UNCHANGED notAuthVars

\* `if code:` and the exchange succeeds (the provider exchanges a code once):
\* save_creds, session creds and service, then st.experimental_rerun().
AuthExchangeOk ==
    /\ pc = "auth"
    /\ auth_started
    /\ codeInput # NoCode
    /\ codeInput \notin consumed
    /\ nextTok <= MaxTokens
    /\ flow' = FlowAfter
    /\ auth_url' = UrlAfter
    /\ codeShown' = TRUE
    /\ exchange' = [code |-> codeInput, status |-> "ok"]
    /\ \E r \in BOOLEAN :
          /\ store' = save_creds([tok |-> nextTok, refresh_token |-> r])
          /\ creds' = [tok |-> nextTok, refresh_token |-> r]
          /\ service' = build_service([tok |-> nextTok, refresh_token |-> r])
    /\ nextTok' = nextTok + 1
    /\ consumed' = consumed \cup {codeInput}
    /\ authedBy' = codeInput
    /\ connectClicked' = FALSE
    /\ pc' = "load"
    /\ UNCHANGED <<auth_started, expiredToks, codeInput, loadOutcome,
                   connectShown, authError, mailIssued>>
    /\ UNCHANGED notAuthVars

\* ---- Main App UI, and the end of a complete pass ----

\* A complete pass drops the value of a widget it did not render.
EndPass ==
    /\ pc' = "idle"
    /\ connectClicked' = FALSE
    /\ codeInput' = IF codeShown THEN codeInput ELSE NoCode

\* `if st.session_state.creds:` get_unread_emails(service) is called.
MainApp ==
    /\ pc = "main"
    /\ creds # NoCreds
    /\ mailIssued' = TRUE
    /\ EndPass
    /\ UNCHANGED <<sessionVars, envVars, loadOutcome, connectShown, codeShown,
                   exchange, authError, authedBy>>
    /\ UNCHANGED notAuthVars

\* `else: st.info("Please connect your Gmail account to continue.")`
MainNotConnected ==
    /\ pc = "main"
    /\ creds = NoCreds
    /\ EndPass
    /\ UNCHANGED <<sessionVars, envVars, loadOutcome, connectShown, codeShown,
                   exchange, authError, mailIssued, authedBy>>
    /\ UNCHANGED notAuthVars

\* ---- what happens between passes ----

\* The user presses the Connect button of the page the last pass rendered.
UserClickConnect ==
    /\ pc = "idle"
    /\ connectShown
    /\ connectClicked' = TRUE
    /\ pc' = "load"
    /\ UNCHANGED <<sessionVars, envVars, codeInput, loadOutcome, connectShown,
                   codeShown, exchange, authError, mailIssued, authedBy>>
    /\ UNCHANGED notAuthVars

\* The user changes the code input of the page the last pass rendered.
UserEnterCode ==
    /\ pc = "idle"
    /\ codeShown
    /\ \E c \in Codes \cup {NoCode} : c # codeInput /\ codeInput' = c
    /\ pc' = "load"
    /\ UNCHANGED <<sessionVars, envVars, connectClicked, loadOutcome,
                   connectShown, codeShown, exchange, authError, mailIssued,
                   authedBy>>
    /\ UNCHANGED notAuthVars

\* Any other interaction re-executes the script.
UserRerun ==
    /\ pc = "idle"
    /\ pc' = "load"
    /\ UNCHANGED <<sessionVars, envVars, widgetVars, loadOutcome, connectShown,
                   codeShown, exchange, authError, mailIssued, authedBy>>
    /\ UNCHANGED notAuthVars

\* The page is opened anew: a new session, with the same token.pickle.
NewSession ==
    /\ pc = "idle"
    /\ creds' = NoCreds /\ service' = NoService /\ auth_url' = NoUrl
    /\ flow' = NoFlow /\ auth_started' = FALSE
    /\ codeInput' = NoCode /\ connectClicked' = FALSE
    /\ authedBy' = NoCode
    /\ pc' = "load"
    /\ UNCHANGED <<envVars, loadOutcome, connectShown, codeShown, exchange,
                   authError, mailIssued>>
    /\ UNCHANGED notAuthVars

\* Time passes: the stored credential's expiry is reached.
Expire ==
    /\ pc = "idle"
    /\ creds_valid(store)
    /\ expiredToks' = expiredToks \cup {store.tok}
    /\ UNCHANGED <<sessionVars, store, nextTok, consumed, widgetVars, passVars>>
    /\ UNCHANGED notAuthVars

AuthNext ==
    \/ LoadValid \/ LoadRefreshOk \/ LoadRefreshFail \/ LoadNone
    \/ ConnectClicked \/ ConnectPass
    \/ AuthSkip \/ AuthFlowError \/ AuthPrompt
    \/ AuthExchangeFail \/ AuthExchangeOk
    \/ MainApp \/ MainNotConnected
    \/ UserClickConnect \/ UserEnterCode \/ UserRerun \/ NewSession \/ Expire

SpecAuth == AuthInit /\ [][AuthNext]_vars

-----------------------------------------------------------------------------
(* Claims about the credential lifecycle, checked under SpecAuth *)

\* This step of the script called flow.fetch_token.
ExchangeStep == pc = "auth" /\ exchange'.status # "none"

\* C4: once the session is Authenticated through an authorization-code
\* exchange, no later pass of the script calls fetch_token with that same
\* code again.
C4_NoSecondExchange ==
    [][(ExchangeStep /\ AuthState = "Authenticated" /\ authedBy # NoCode)
          => exchange'.code # authedBy]_vars

\* C5: a pass that finds the stored credential expired with a refresh token,
\* and whose refresh call succeeds, is Authenticated from there to its end
\* (credential and service handle set), and token.pickle holds the refreshed
\* credential, which carries a token issued by that refresh.
C5_RefreshAuthenticates ==
    (loadOutcome = "refreshed" /\ pc # "load") =>
        /\ AuthState = "Authenticated"
        /\ service = build_service(creds)
        /\ store = creds
        /\ store.tok = nextTok - 1
        /\ store.refresh_token
        /\ (pc # "idle" => creds_valid(store))

\* The end of a pass whose refresh succeeded, after an earlier token expired.
C5_Witness ==
    /\ loadOutcome = "refreshed"
    /\ pc = "idle"
    /\ mailIssued
    /\ expiredToks # {}
    /\ store.tok \notin expiredToks
    /\ creds = store

\* C6: in every pass that finds the stored credential expired and without a
\* refresh token, the session is Unauthenticated: no credential, no service
\* handle, no mail operation.
C6_ExpiredWithoutRefreshToken ==
    (loadOutcome = "expired_norefresh" /\ pc # "load") =>
        /\ creds = NoCreds
        /\ service = NoService
        /\ ~mailIssued

\* C7: a pass whose refresh call fails ends Unauthenticated and has offered
\* the Connect button.
C7_RefreshFailureOffersConnect ==
    (loadOutcome = "refresh_failed" /\ pc = "idle") =>
        /\ creds = NoCreds
        /\ service = NoService
        /\ connectShown

\* C8: a failed code-for-token exchange writes no credential to the store or
\* the session, builds no service handle, keeps the flow and the
\* authorization URL, shows the error, and leaves a session that was in
\* AwaitingUserCode in AwaitingUserCode.
C8_FailedExchangeKeepsState ==
    [][(ExchangeStep /\ exchange'.status = "failed") =>
          /\ store' = store
          /\ creds' = creds
          /\ service' = service
          /\ flow' = flow /\ flow # NoFlow
          /\ auth_url' = auth_url /\ auth_url # NoUrl
          /\ authError'
          /\ AuthState' = AuthState
          /\ (creds = NoCreds => AuthState' = "AwaitingUserCode")]_vars

\* A failed exchange in a session that is still waiting for its code.
C8_Witness ==
    /\ exchange.status = "failed"
    /\ pc = "main"
    /\ AuthState = "AwaitingUserCode"
    /\ store = NoCreds
    /\ authError

\* This step starts a new browser session: session state is initialized anew.
SessionStarts == pc = "idle" /\ pc' = "load" /\ FreshSession'

\* C20: within one session the flow and its authorization URL, once made,
\* are changed by no later step of any pass, a failed exchange included; the
\* URL in the session is the one the flow in the session produced; and
\* fetch_token is called on that flow.
C20_FlowCreatedOnce ==
    [][/\ (flow # NoFlow /\ ~SessionStarts) =>
             flow' = flow /\ auth_url' = auth_url
       /\ (flow' # NoFlow \/ auth_url' # NoUrl) => auth_url' = flow'
       /\ ExchangeStep => flow' # NoFlow /\ auth_url' = flow']_vars

\* A pass that ended after a failed exchange, the code still in the input:
\* the next pass exchanges again, on the flow made before.
C20_Witness ==
    /\ pc = "idle"
    /\ exchange.status = "failed"
    /\ codeInput # NoCode
    /\ flow # NoFlow
    /\ auth_url = flow

-----------------------------------------------------------------------------
(* get_or_create_label and send_email against the mail provider *)

\* str.lower(), character by character
LowerChar(c) ==
    CASE c = "R" -> "r" [] c = "E" -> "e" [] c = "P" -> "p" [] c = "L" -> "l"
      [] c = "I" -> "i" [] c = "D" -> "d" [] c = "W" -> "w" [] OTHER -> c

Lower(str) == [i \in 1..Len(str) |-> LowerChar(str[i])]

\* `label['name'].lower() == label_name.lower()`
MatchesCaseSensitive(label, name) == label.name = name
Matches(label, name) == Lower(label.name) = Lower(name)

\* The messages threads.modify(id=thread_id) acts on.
ThreadMsgs(t) == {m \in Msgs : ThreadOf[m] = t}

\* threads.modify(body={'removeLabelIds': ['UNREAD']})
RemoveUnreadSkipped(u, t) == u
RemoveUnread(u, t) == u \ ThreadMsgs(t)

\* threads.modify(body={'addLabelIds': [label_id]})
AddLabel(tg, t, id) ==
    [m \in Msgs |-> IF m \in ThreadMsgs(t) THEN tg[m] \cup {id} ELSE tg[m]]

LabelKeys == {Lower(n) : n \in LabelNames}

\* The first provider call of send_email's body: messages.send.
SendEntryUnmarkFirst == "s_unmark"
SendEntry == "s_send"

\* internalDate of each message: m1 is the oldest, m3 the newest.
InternalDate == [m \in Msgs |-> CASE m = "m1" -> 1 [] m = "m2" -> 2 [] OTHER -> 3]

\* The messages of S as the provider lists them: newest first.
RECURSIVE NewestFirst(_)
NewestFirst(S) ==
    IF S = {} THEN <<>>
    ELSE LET n == CHOOSE m \in S : \A o \in S : InternalDate[o] <= InternalDate[m]
         IN <<n>> \o NewestFirst(S \ {n})

MaxResults == 10

\* messages.list(labelIds=['UNREAD'], maxResults=10): results['messages']
ProviderList(u) == SubSeq(NewestFirst(u), 1, Min(Cardinality(u), MaxResults))

MailInit ==
    /\ labels \in {{}, {[id |-> 1, name |-> REPLIEDUpper]}}
    /\ nextLabelId = 2
    /\ unread \in {{}, {"m2"}, {"m1", "m3"}, Msgs}
    /\ \E k \in 0..1 :
          tags = [m \in Msgs |-> IF k = 1 /\ m = "m1" /\ labels # {}
                                    THEN {1} ELSE {}]
    /\ mpc = "idle"
    /\ sThread = NoThread /\ sAttempt = 0 /\ sends = 0 /\ labelId = NoLabelId
    /\ lName = Replied /\ lAttempt = 0 /\ lCaller = "none"
    /\ lastCall = NoCall
    /\ snap = [unread |-> unread, tags |-> tags]
    /\ returned = [k \in LabelKeys |-> {}]
    /\ fAttempt = 0 /\ fListed = <<>> /\ fPos = 0 /\ emails = <<>>
    /\ sendCalls = 0 /\ listCalls = 0
    /\ RetryParked
    /\ AuthParked
    /\ RaceParked
    /\ UiParked

\* ---- how a call ends or is retried ----

\* The locals of a call are gone once it has returned or raised.
SendFrameGone == sThread' = NoThread /\ sAttempt' = 0 /\ labelId' = NoLabelId
LabelFrameGone == lName' = Replied /\ lAttempt' = 0 /\ lCaller' = "none"

Ended(fn, status, id) ==
    [fn |-> fn, status |-> status, thread |-> sThread, ret |-> id,
     retries |-> IF fn = "send_email" THEN sAttempt ELSE lAttempt]

\* send_email returns to the script.
SendEmailReturns ==
    /\ mpc' = "done"
    /\ lastCall' = Ended("send_email", "returned", NoLabelId)
    /\ SendFrameGone

\* send_email's wrapper catches a failure of the body: re-raise on the last
\* attempt, otherwise (after the wait) run the body again from its start.
SendEmailFails ==
    IF LastAttempt(sAttempt, PolicyGmail.max_retries)
    THEN /\ mpc' = "done"
         /\ lastCall' = Ended("send_email", "raised", NoLabelId)
         /\ SendFrameGone
    ELSE /\ mpc' = SendEntry
         /\ sAttempt' = sAttempt + 1
         /\ UNCHANGED <<lastCall, sThread, labelId>>

\* get_or_create_label's wrapper catches a failure of the body: on the last
\* attempt the failure goes to the caller, otherwise the body runs again.
LabelFails ==
    IF LastAttempt(lAttempt, PolicyGmail.max_retries)
    THEN /\ LabelFrameGone
         /\ IF lCaller = "send_email"
            THEN SendEmailFails
            ELSE /\ mpc' = "done"
                 /\ lastCall' = Ended("get_or_create_label", "raised", NoLabelId)
                 /\ UNCHANGED <<sThread, sAttempt, labelId>>
    ELSE /\ mpc' = "l_list"
         /\ lAttempt' = lAttempt + 1
         /\ UNCHANGED <<lastCall, sThread, sAttempt, labelId, lName, lCaller>>

\* get_or_create_label returns `id` to its caller.
LabelReturns(id) ==
    /\ returned' = [returned EXCEPT ![Lower(lName)] = @ \cup {id}]
    /\ LabelFrameGone
    /\ IF lCaller = "send_email"
       THEN /\ labelId' = id
            /\ mpc' = "s_add"
            /\ UNCHANGED <<lastCall, sThread, sAttempt>>
       ELSE /\ mpc' = "done"
            /\ lastCall' = Ended("get_or_create_label", "returned", id)
            /\ UNCHANGED <<sThread, sAttempt, labelId>>

\* ---- calls ----

\* get_or_create_label(service, name), called on its own
CallLabel ==
    /\ mpc = "idle"
    /\ \E n \in LabelNames : lName' = n
    /\ lAttempt' = 0
    /\ lCaller' = "user"
    /\ lastCall' = NoCall
    /\ sends' = 0
    /\ snap' = [unread |-> unread, tags |-> tags]
    /\ mpc' = "l_list"
    /\ UNCHANGED <<providerVars, sThread, sAttempt, labelId, returned>>
    /\ sendCalls' = 0 /\ listCalls' = 0
    /\ UNCHANGED fetchVars
    /\ UNCHANGED notMailVars

\* send_email(service, to, subject, body, thread_id=t)
CallSend ==
    /\ mpc = "idle"
    /\ \E t \in Threads \cup {NoThread} : sThread' = t
    /\ sAttempt' = 0
    /\ sends' = 0
    /\ labelId' = NoLabelId
    /\ lastCall' = NoCall
    /\ snap' = [unread |-> unread, tags |-> tags]
    /\ mpc' = SendEntry
    /\ UNCHANGED <<providerVars, labelVars, returned>>
    /\ sendCalls' = 0 /\ listCalls' = 0
    /\ UNCHANGED fetchVars
    /\ UNCHANGED notMailVars

\* ---- the body of send_email ----

\* messages.send(...).execute() succeeds; without thread_id the call is over.
SendOk ==
    /\ mpc = "s_send"
    /\ sends' = sends + 1
    /\ IF sThread # NoThread
       THEN mpc' = "s_unmark" /\ UNCHANGED <<lastCall, sThread, sAttempt, labelId>>
       ELSE SendEmailReturns
    /\ UNCHANGED <<providerVars, labelVars, snap, returned>>
    /\ sendCalls' = sendCalls + 1
    /\ UNCHANGED <<listCalls, fetchVars>>
    /\ UNCHANGED notMailVars

SendFail ==
    /\ mpc = "s_send"
    /\ SendEmailFails
    /\ UNCHANGED <<providerVars, sends, labelVars, snap, returned>>
    /\ sendCalls' = sendCalls + 1
    /\ UNCHANGED <<listCalls, fetchVars>>
    /\ UNCHANGED notMailVars

\* threads.modify(removeLabelIds UNREAD) succeeds; get_or_create_label is
\* called next.
UnmarkOk ==
    /\ mpc = "s_unmark"
    /\ unread' = RemoveUnread(unread, sThread)
    /\ lName' = Replied
    /\ lAttempt' = 0
    /\ lCaller' = "send_email"
    /\ mpc' = "l_list"
    /\ UNCHANGED <<labels, nextLabelId, tags, sendVars, lastCall, snap, returned>>
    /\ UNCHANGED <<countVars, fetchVars>>
    /\ UNCHANGED notMailVars

UnmarkFail ==
    /\ mpc = "s_unmark"
    /\ SendEmailFails
    /\ UNCHANGED <<providerVars, sends, labelVars, snap, returned>>
    /\ UNCHANGED <<countVars, fetchVars>>
    /\ UNCHANGED notMailVars

\* threads.modify(addLabelIds [label_id]) succeeds: send_email returns.
AddOk ==
    /\ mpc = "s_add"
    /\ tags' = AddLabel(tags, sThread, labelId)
    /\ SendEmailReturns
    /\ UNCHANGED <<labels, nextLabelId, unread, sends, labelVars, snap, returned>>
    /\ UNCHANGED <<countVars, fetchVars>>
    /\ UNCHANGED notMailVars

AddFail ==
    /\ mpc = "s_add"
    /\ SendEmailFails
    /\ UNCHANGED <<providerVars, sends, labelVars, snap, returned>>
    /\ UNCHANGED <<countVars, fetchVars>>
    /\ UNCHANGED notMailVars

\* ---- the body of get_or_create_label ----

\* labels.list succeeds and a label matches: its id is returned.
ListHit ==
    /\ mpc = "l_list"
    /\ \E l \in labels : Matches(l, lName) /\ LabelReturns(l.id)
    /\ UNCHANGED <<providerVars, sends, snap>>
    /\ listCalls' = listCalls + 1
    /\ UNCHANGED <<sendCalls, fetchVars>>
    /\ UNCHANGED notMailVars

\* labels.list succeeds and no label matches: the label is to be created.
ListMiss ==
    /\ mpc = "l_list"
    /\ ~\E l \in labels : Matches(l, lName)
    /\ mpc' = "l_create"
    /\ UNCHANGED <<providerVars, sendVars, labelVars, lastCall, snap, returned>>
    /\ listCalls' = listCalls + 1
    /\ UNCHANGED <<sendCalls, fetchVars>>
    /\ UNCHANGED notMailVars

ListFail ==
    /\ mpc = "l_list"
    /\ LabelFails
    /\ UNCHANGED <<providerVars, sends, snap, returned>>
    /\ listCalls' = listCalls + 1
    /\ UNCHANGED <<sendCalls, fetchVars>>
    /\ UNCHANGED notMailVars

\* labels.create succeeds (the provider has no label of that very name):
\* the new label's id is returned.
CreateOk ==
    /\ mpc = "l_create"
    /\ ~\E l \in labels : l.name = lName
    /\ labels' = labels \cup {[id |-> nextLabelId, name |-> lName]}
    /\ nextLabelId' = nextLabelId + 1
    /\ LabelReturns(nextLabelId)
    /\ UNCHANGED <<unread, tags, sends, snap>>
    /\ UNCHANGED <<countVars, fetchVars>>
    /\ UNCHANGED notMailVars

CreateFail ==
    /\ mpc = "l_create"
    /\ LabelFails
    /\ UNCHANGED <<providerVars, sends, snap, returned>>
    /\ UNCHANGED <<countVars, fetchVars>>
    /\ UNCHANGED notMailVars

\* ---- get_unread_emails ----

CallFetch ==
    /\ mpc = "idle"
    /\ fAttempt' = 0 /\ fListed' = <<>> /\ fPos' = 0 /\ emails' = <<>>
    /\ lastCall' = NoCall
    /\ sends' = 0 /\ sendCalls' = 0 /\ listCalls' = 0
    /\ snap' = [unread |-> unread, tags |-> tags]
    /\ mpc' = "f_list"
    /\ UNCHANGED <<providerVars, sThread, sAttempt, labelId, labelVars, returned>>
    /\ UNCHANGED notMailVars

\* get_unread_emails returns `list` or raises: its locals are gone.
FetchEnds(status, list) ==
    /\ mpc' = "done"
    /\ lastCall' = [fn |-> "get_unread_emails", status |-> status,
                    thread |-> NoThread, ret |-> NoLabelId, retries |-> fAttempt]
    /\ emails' = list
    /\ fAttempt' = 0 /\ fListed' = <<>> /\ fPos' = 0

\* The wrapper of get_unread_emails catches a failure of the body: re-raise
\* on the last attempt, otherwise run the body again from messages.list.
FetchFails ==
    IF LastAttempt(fAttempt, PolicyGmail.max_retries)
    THEN FetchEnds("raised", <<>>)
    ELSE /\ mpc' = "f_list"
         /\ fAttempt' = fAttempt + 1
         /\ UNCHANGED <<lastCall, fListed, fPos, emails>>

\* messages.list succeeds; `emails = []`; an empty listing is returned.
FetchListOk ==
    /\ mpc = "f_list"
    /\ IF ProviderList(unread) = <<>>
       THEN FetchEnds("returned", <<>>)
       ELSE /\ fListed' = ProviderList(unread)
            /\ fPos' = 1
            /\ emails' = <<>>
            /\ mpc' = "f_get"
            /\ UNCHANGED <<lastCall, fAttempt>>
    /\ UNCHANGED <<providerVars, sendVars, labelVars, countVars, snap, returned>>
    /\ UNCHANGED notMailVars

FetchListFail ==
    /\ mpc = "f_list"
    /\ FetchFails
    /\ UNCHANGED <<providerVars, sendVars, labelVars, countVars, snap, returned>>
    /\ UNCHANGED notMailVars

\* messages.get succeeds for the next listed message: it is appended; after
\* the last one `emails` is returned.
FetchGetOk ==
    /\ mpc = "f_get"
    /\ IF fPos = Len(fListed)
       THEN FetchEnds("returned", Append(emails, fListed[fPos]))
       ELSE /\ emails' = Append(emails, fListed[fPos])
            /\ fPos' = fPos + 1
            /\ UNCHANGED <<mpc, lastCall, fAttempt, fListed>>
    /\ UNCHANGED <<providerVars, sendVars, labelVars, countVars, snap, returned>>
    /\ UNCHANGED notMailVars

FetchGetFail ==
    /\ mpc = "f_get"
    /\ FetchFails
    /\ UNCHANGED <<providerVars, sendVars, labelVars, countVars, snap, returned>>
    /\ UNCHANGED notMailVars

\* The script goes on after the call: what was observed of it is dropped.
Resume ==
    /\ mpc = "done"
    /\ mpc' = "idle"
    /\ lastCall' = NoCall
    /\ emails' = <<>>
    /\ sends' = 0 /\ sendCalls' = 0 /\ listCalls' = 0
    /\ snap' = [unread |-> unread, tags |-> tags]
    /\ UNCHANGED <<providerVars, sThread, sAttempt, labelId, labelVars,
                   fAttempt, fListed, fPos, returned>>
    /\ UNCHANGED notMailVars

MailNext ==
    \/ CallLabel \/ CallSend \/ CallFetch \/ Resume
    \/ FetchListOk \/ FetchListFail \/ FetchGetOk \/ FetchGetFail
    \/ SendOk \/ SendFail \/ UnmarkOk \/ UnmarkFail \/ AddOk \/ AddFail
    \/ ListHit \/ ListMiss \/ ListFail \/ CreateOk \/ CreateFail

SpecMail == MailInit /\ [][MailNext]_vars

-----------------------------------------------------------------------------
(* Claims about the mail operations, checked under SpecMail *)

SendCompleted ==
    /\ mpc = "done"
    /\ lastCall.fn = "send_email"
    /\ lastCall.status = "returned"
    /\ lastCall.thread # NoThread

\* C9: when send_email has returned for a call with a thread id, no message
\* of that thread is unread, every message of it carries the label named
\* "Replied" (in any letter case) and otherwise the labels it had, and the
\* unread marker and labels of every message of another thread are as they
\* were when the call began.
C9_SendMarksOnlyItsThread ==
    SendCompleted =>
        /\ \A m \in ThreadMsgs(lastCall.thread) :
              /\ m \notin unread
              /\ \E l \in labels :
                    /\ Lower(l.name) = Lower(Replied)
                    /\ tags[m] = snap.tags[m] \cup {l.id}
        /\ \A m \in Msgs \ ThreadMsgs(lastCall.thread) :
              /\ (m \in unread) = (m \in snap.unread)
              /\ tags[m] = snap.tags[m]

\* A reply to the two-message thread t2 that went through after a retry,
\* while m1 of thread t1 is still unread.
C9_Witness ==
    /\ SendCompleted
    /\ lastCall.thread = "t2"
    /\ lastCall.retries > 0
    /\ snap.unread = Msgs
    /\ unread = {"m1"}

\* C10: every id get_or_create_label has returned for names that differ
\* only in letter case is the same id, and the provider never holds two
\* labels whose names differ only in letter case.
C10_OneLabelPerName ==
    /\ \A k \in LabelKeys : Cardinality(returned[k]) <= 1
    /\ \A l1, l2 \in labels :
          Lower(l1.name) = Lower(l2.name) => l1 = l2

\* Calls for "Replied" have returned the id of the existing label "REPLIED",
\* and a label for another name was created next to it.
C10_Witness ==
    /\ mpc = "done"
    /\ lastCall.fn = "get_or_create_label"
    /\ lastCall.status = "returned"
    /\ \E l \in labels : l.name = REPLIEDUpper /\ returned[Lower(Replied)] = {l.id}
    /\ Cardinality(labels) = 2

-----------------------------------------------------------------------------
(* send_email and get_unread_emails: what one call may do *)

\* C14 (as stated): UNREAD is removed, and labels are attached, only by a
\* send_email call whose messages.send has succeeded, and only on the
\* messages of the thread it replies to; the first call of every attempt is
\* messages.send, a failed messages.send is followed by no modification, and
\* listing and fetching messages changes no label.
C14_UnreadRemovedOnlyAfterSend ==
    [][/\ (unread' # unread \/ tags' # tags) =>
             /\ mpc \in {"s_unmark", "s_add"}
             /\ sends >= 1
             /\ sThread # NoThread
             /\ unread' \subseteq unread
             /\ \A m \in Msgs \ ThreadMsgs(sThread) :
                   (m \in unread' <=> m \in unread) /\ tags'[m] = tags[m]
       /\ (mpc' = "s_unmark" /\ mpc # "s_unmark") =>
             mpc = "s_send" /\ sends' = sends + 1
       /\ (mpc = "s_send" /\ sends' = sends) =>
             mpc' \in {"s_send", "done"} /\ unread' = unread /\ tags' = tags
       /\ mpc \in {"f_list", "f_get"} =>
             unread' = unread /\ tags' = tags /\ labels' = labels]_vars

\* A send whose first attempt failed at messages.send and whose retry sent
\* the reply and removed UNREAD from the thread.
C14_Witness ==
    /\ SendCompleted
    /\ lastCall.retries > 0
    /\ sends = 1
    /\ sendCalls > 1
    /\ snap.unread \cap ThreadMsgs(lastCall.thread) # {}
    /\ unread \cap ThreadMsgs(lastCall.thread) = {}

\* C15 (as stated): get_unread_emails returns the listed messages oldest
\* first, the reverse of the provider's newest-first listing, and at most
\* maxResults of them.
C15_OldestFirst ==
    (mpc = "done" /\ lastCall.fn = "get_unread_emails"
                  /\ lastCall.status = "returned") =>
        /\ Len(emails) <= MaxResults
        /\ \A i, j \in 1..Len(emails) :
              i < j => InternalDate[emails[i]] < InternalDate[emails[j]]

\* C18 (as stated): within one call of send_email, messages.send succeeds at
\* most once.
C18_AtMostOneSend == sends <= 1

\* What is left of a call in progress: attempts still allowed, and provider
\* calls still ahead in the current attempt.
Rank ==
    CASE mpc = "s_send"   -> (PolicyGmail.max_retries - sAttempt) * 100 + 90
      [] mpc = "s_unmark" -> (PolicyGmail.max_retries - sAttempt) * 100 + 80
      [] mpc = "s_add"    -> (PolicyGmail.max_retries - sAttempt) * 100
      [] mpc \in {"l_list", "l_create"} ->
            (IF lCaller = "send_email"
                THEN (PolicyGmail.max_retries - sAttempt) * 100 ELSE 0)
            + (PolicyGmail.max_retries - lAttempt) * 2
            + (IF mpc = "l_list" THEN 1 ELSE 0)
      [] mpc \in {"f_list", "f_get"} ->
            (PolicyGmail.max_retries - fAttempt) * 10
            + (IF mpc = "f_list" THEN 5 ELSE Len(fListed) - fPos)
      [] OTHER -> 0

\* C19: a wrapped function is invoked at most max_retries times per call;
\* one send_email call issues at most 5 messages.send and at most 25
\* labels.list calls; and every step of a call in progress either ends it
\* or lowers Rank, which is never negative, so every call terminates.
C19_BoundedAttempts ==
    [][/\ sendCalls' <= PolicyGmail.max_retries
       /\ listCalls' <= PolicyGmail.max_retries * PolicyGmail.max_retries
       /\ sAttempt' < PolicyGmail.max_retries
       /\ lAttempt' < PolicyGmail.max_retries
       /\ fAttempt' < PolicyGmail.max_retries
       /\ (lCaller = "user" /\ mpc \in {"l_list", "l_create"}) =>
             listCalls' <= PolicyGmail.max_retries
       /\ mpc \notin {"idle", "done"} =>
             /\ Rank >= 0
             /\ mpc' = "done" \/ Rank' < Rank]_vars

\* The worst case: a send_email call that raised after 5 messages.send and
\* 25 labels.list calls.
C19_Witness ==
    /\ mpc = "done"
    /\ lastCall.fn = "send_email"
    /\ lastCall.status = "raised"
    /\ sendCalls = PolicyGmail.max_retries
    /\ listCalls = PolicyGmail.max_retries * PolicyGmail.max_retries

-----------------------------------------------------------------------------
(* Two callers of get_or_create_label("Replied") on one account *)

Callers == {"a", "b"}

\* A caller about to call labels.list on its first attempt.
RacerStart == [pc |-> "list", attempt |-> 0, status |-> "running",
               ret |-> NoLabelId, err |-> "none"]

RaceInit ==
    /\ racers = [c \in Callers |-> RacerStart]
    /\ \E k \in 0..1 : labels = IF k = 0 THEN {} ELSE {[id |-> 1, name |-> Work]}
    /\ nextLabelId = 2
    /\ unread = {} /\ tags = [m \in Msgs |-> {}]
    /\ mpc = "off" /\ sThread = NoThread /\ sAttempt = 0 /\ sends = 0
    /\ labelId = NoLabelId /\ lName = Replied /\ lAttempt = 0 /\ lCaller = "none"
    /\ lastCall = NoCall
    /\ snap = [unread |-> {}, tags |-> [m \in Msgs |-> {}]]
    /\ returned = <<>>
    /\ fAttempt = 0 /\ fListed = <<>> /\ fPos = 0 /\ emails = <<>>
    /\ sendCalls = 0 /\ listCalls = 0
    /\ RetryParked
    /\ AuthParked
    /\ UiParked

\* What the wrapper around caller c's get_or_create_label does with a failure
\* `e` of the body: re-raise it on the last attempt, otherwise list again.
RacerAfterFailure(r, e) ==
    IF LastAttempt(r.attempt, PolicyGmail.max_retries)
    THEN [r EXCEPT !.pc = "done", !.status = "raised", !.err = e]
    ELSE [r EXCEPT !.pc = "list", !.attempt = @ + 1, !.err = e]

RaceUnchanged ==
    /\ UNCHANGED <<unread, tags, mpc, sendVars, labelVars, lastCall, fetchVars,
                   countVars, snap, returned>>
    /\ UNCHANGED <<retryVars, authVars, uiVars>>

\* labels.list succeeds and a label matches: c returns its id.
RaceListHit(c) ==
    /\ racers[c].pc = "list"
    /\ \E l \in labels :
          /\ Matches(l, Replied)
          /\ racers' = [racers EXCEPT ![c].pc = "done", ![c].status = "returned",
                                      ![c].ret = l.id]
    /\ UNCHANGED <<labels, nextLabelId>>
    /\ RaceUnchanged

\* labels.list succeeds and no label matches: c goes on to labels.create.
RaceListMiss(c) ==
    /\ racers[c].pc = "list"
    /\ ~\E l \in labels : Matches(l, Replied)
    /\ racers' = [racers EXCEPT ![c].pc = "create"]
    /\ UNCHANGED <<labels, nextLabelId>>
    /\ RaceUnchanged

\* labels.list raises.
RaceListFail(c) ==
    /\ racers[c].pc = "list"
    /\ racers' = [racers EXCEPT ![c] = RacerAfterFailure(@, "transient")]
    /\ UNCHANGED <<labels, nextLabelId>>
    /\ RaceUnchanged

\* labels.create succeeds: the account has no label of that name yet.
RaceCreateOk(c) ==
    /\ racers[c].pc = "create"
    /\ ~\E l \in labels : l.name = Replied
    /\ labels' = labels \cup {[id |-> nextLabelId, name |-> Replied]}
    /\ nextLabelId' = nextLabelId + 1
    /\ racers' = [racers EXCEPT ![c].pc = "done", ![c].status = "returned",
                                ![c].ret = nextLabelId]
    /\ RaceUnchanged

\* labels.create is answered "already exists": the other caller created the
\* label after c listed. The call raises like any other failure.
RaceCreateExists(c) ==
    /\ racers[c].pc = "create"
    /\ \E l \in labels : l.name = Replied
    /\ racers' = [racers EXCEPT ![c] = RacerAfterFailure(@, "exists")]
    /\ UNCHANGED <<labels, nextLabelId>>
    /\ RaceUnchanged

\* labels.create raises for another reason.
RaceCreateFail(c) ==
    /\ racers[c].pc = "create"
    /\ racers' = [racers EXCEPT ![c] = RacerAfterFailure(@, "transient")]
    /\ UNCHANGED <<labels, nextLabelId>>
    /\ RaceUnchanged

RaceNext ==
    \E c \in Callers :
        \/ RaceListHit(c) \/ RaceListMiss(c) \/ RaceListFail(c)
        \/ RaceCreateOk(c) \/ RaceCreateExists(c) \/ RaceCreateFail(c)

SpecRace == RaceInit /\ [][RaceNext]_vars

\* C11: a caller whose labels.create was answered "already exists" does not
\* get that failure raised to it: it completes with the id of the label the
\* other caller created.
C11_AlreadyExistsIsSuccess ==
    \A c \in Callers :
        (racers[c].pc = "done" /\ racers[c].err = "exists") =>
            /\ racers[c].status = "returned"
            /\ \E l \in labels : l.name = Replied /\ racers[c].ret = l.id

-----------------------------------------------------------------------------
(* The Main App UI: one pass of the script per interaction *)

\* Text is a sequence of one-character strings.
Whitespace == {" ", "\t", "\n"}

RECURSIVE LStrip(_)
LStrip(s) == IF s # <<>> /\ Head(s) \in Whitespace THEN LStrip(Tail(s)) ELSE s

RECURSIVE RStrip(_)
RStrip(s) ==
    IF s # <<>> /\ s[Len(s)] \in Whitespace
    THEN RStrip(SubSeq(s, 1, Len(s) - 1)) ELSE s

\* str.strip()
Strip(s) == RStrip(LStrip(s))

\* `not snippet or not snippet.strip()`
BlankOnlyEmpty(snippet) == snippet = <<>>
Blank(snippet) == snippet = <<>> \/ Strip(snippet) = <<>>

\* "(No content to summarize)"
SummaryPlaceholder ==
    <<"(", "N", "o", " ", "c", "o", "n", "t", "e", "n", "t", " ", "t", "o",
          " ", "s", "u", "m", "m", "a", "r", "i", "z", "e", ")">>

\* "No email content to reply to."
ReplyPlaceholder ==
    <<"N", "o", " ", "e", "m", "a", "i", "l", " ", "c", "o", "n", "t", "e",
          "n", "t", " ", "t", "o", " ", "r", "e", "p", "l", "y", " ", "t",
          "o", ".">>

Placeholder(fn) ==
    IF fn = "summarize_email" THEN SummaryPlaceholder ELSE ReplyPlaceholder

\* "Error generating reply."
ErrorSentinel ==
    <<"E", "r", "r", "o", "r", " ", "g", "e", "n", "e", "r", "a", "t", "i",
          "n", "g", " ", "r", "e", "p", "l", "y", ".">>

\* "Error summarizing email: " and "Error generating reply: "
SummaryErrorPrefix ==
    <<"E", "r", "r", "o", "r", " ", "s", "u", "m", "m", "a", "r", "i", "z",
          "i", "n", "g", " ", "e", "m", "a", "i", "l", ":", " ">>

ReplyErrorPrefix ==
    <<"E", "r", "r", "o", "r", " ", "g", "e", "n", "e", "r", "a", "t", "i",
          "n", "g", " ", "r", "e", "p", "l", "y", ":", " ">>

\* The snippets of the three messages: text, whitespace only, empty.
Snippet ==
    [m \in Msgs |-> CASE m = "m1" -> <<"H", "i">>
                      [] m = "m2" -> <<" ", " ">>
                      [] OTHER -> <<>>]

\* Their From headers: "Jo <j@x.io>" and "b@y.io".
Sender ==
    [m \in Msgs |-> IF m = "m1"
                    THEN <<"J", "o", " ", "<", "j", "@", "x", ".", "i", "o", ">">>
                    ELSE <<"b", "@", "y", ".", "i", "o">>]

\* What llm.invoke may answer: its `text`, and str(response).
Responses ==
    {[text |-> <<" ", "O", "k", "\n">>, repr |-> <<"O", "k">>],
     [text |-> ErrorSentinel, repr |-> ErrorSentinel],
     [text |-> <<>>, repr |-> <<"r", "(", ")", " ">>]}

\* `text = getattr(response, 'text', None)`, `if not text: text =
\* str(response)`, `return text.strip()`
ResponseText(r) == Strip(IF r.text = <<>> THEN r.repr ELSE r.text)

\* The message of an exception raised by llm.invoke.
Errors == {<<"q", "u", "o", "t", "a">>}

\* The `to` argument of the send_email call for message m.
ReplyTo(m) == Sender[m]

\* `email` of the loop over `emails`
Cur == uEmails[uPos]

\* The session keeps summaries and drafts by message id; a key that is not
\* in st.session_state maps to NoEntry, which is no text.
NoEntry == <<"absent">>
HasKey(d, m) == d[m] # NoEntry

\* st.session_state[key] = v
Put(d, m, v) == [d EXCEPT ![m] = v]

\* `reply_key not in st.session_state or
\*  st.session_state[reply_key] == "Error generating reply."`
NeedsDraft(m) == ~HasKey(replies, m) \/ replies[m] = ErrorSentinel

Clicks ==
    {NoClick} \cup {[kind |-> k, msg |-> m] : k \in {"regen", "send"}, m \in Msgs}

UiInit ==
    /\ upc = "idle" /\ click = NoClick
    /\ uUnread \in {Msgs, {"m1", "m3"}}
    /\ uEmails = <<>> /\ uPos = 0 /\ uFetchFail = "none" /\ rendered = {}
    /\ summaries = [m \in Msgs |-> NoEntry]
    /\ replies = [m \in Msgs |-> NoEntry]
    /\ lastSend = NoSend
    /\ gFn = NoFn /\ gTry = 0 /\ gCalls = 0 /\ gWaits = 0 /\ gResult = NoResult
    /\ RetryParked
    /\ AuthParked
    /\ MailParked
    /\ RaceParked

\* The top of the Main App UI section: nothing fetched or rendered yet.
BeginUiPass ==
    /\ upc' = "fetch"
    /\ uEmails' = <<>> /\ uPos' = 0 /\ uFetchFail' = "none" /\ rendered' = {}

\* The user reloads the page or clicks a button that the last pass rendered:
\* the script runs again.
Interact ==
    /\ upc = "idle"
    /\ \E c \in Clicks :
          /\ c # NoClick => c.msg \in rendered
          /\ click' = c
    /\ BeginUiPass
    /\ lastSend' = NoSend
    /\ gResult' = NoResult /\ gCalls' = 0 /\ gWaits' = 0
    /\ UNCHANGED <<uUnread, sessionCache, gFn, gTry>>
    /\ UNCHANGED notUiVars

\* st.experimental_rerun(): this pass stops here and the next one starts,
\* with no button clicked.
Rerun ==
    /\ BeginUiPass
    /\ click' = NoClick

\* The loop goes on to the next message, or the pass is over.
Advance ==
    IF uPos = Len(uEmails)
    THEN upc' = "end" /\ uPos' = uPos
    ELSE upc' = "summary" /\ uPos' = uPos + 1

\* get_unread_emails(service) returns the listing.
UiFetchOk ==
    /\ upc = "fetch"
    /\ uEmails' = ProviderList(uUnread)
    /\ IF ProviderList(uUnread) = <<>>
       THEN upc' = "end" /\ uPos' = 0
       ELSE upc' = "summary" /\ uPos' = 1
    /\ UNCHANGED <<click, uUnread, uFetchFail, rendered, sessionCache,
                   lastSend, llmVars>>
    /\ UNCHANGED notUiVars

\* get_unread_emails(service) raises after its last attempt failed, at
\* messages.list or at the messages.get of one listed message: `emails = []`.
UiFetchRaises ==
    /\ upc = "fetch"
    /\ \E cause \in {"list"} \cup uUnread : uFetchFail' = cause
    /\ uEmails' = <<>>
    /\ upc' = "end"
    /\ UNCHANGED <<click, uUnread, uPos, rendered, sessionCache, lastSend,
                   llmVars>>
    /\ UNCHANGED notUiVars

\* `if summary_key not in st.session_state` is false.
SummaryCached ==
    /\ upc = "summary"
    /\ HasKey(summaries, Cur)
    /\ upc' = "reply"
    /\ UNCHANGED <<click, uUnread, uEmails, uPos, uFetchFail, rendered,
                   sessionCache, lastSend, llmVars>>
    /\ UNCHANGED notUiVars

\* A call of summarize_email or generate_reply begins.
Call(name, why) ==
    /\ gFn' = [name |-> name, why |-> why]
    /\ gTry' = 0 /\ gCalls' = 0 /\ gWaits' = 0
    /\ gResult' = NoResult
    /\ upc' = "llm"
    /\ UNCHANGED <<click, uUnread, uEmails, uPos, uFetchFail, rendered,
                   sessionCache, lastSend>>

SummaryCall ==
    /\ upc = "summary"
    /\ ~HasKey(summaries, Cur)
    /\ Call("summarize_email", "summary")
    /\ UNCHANGED notUiVars

\* The draft is in the session and is not the sentinel: the reply box and
\* the two buttons are rendered.
ReplyCached ==
    /\ upc = "reply"
    /\ ~NeedsDraft(Cur)
    /\ upc' = "buttons"
    /\ rendered' = rendered \cup {Cur}
    /\ UNCHANGED <<click, uUnread, uEmails, uPos, uFetchFail, sessionCache,
                   lastSend, llmVars>>
    /\ UNCHANGED notUiVars

ReplyCall ==
    /\ upc = "reply"
    /\ NeedsDraft(Cur)
    /\ Call("generate_reply", "reply")
    /\ UNCHANGED notUiVars

\* `if st.button("Regenerate Reply ...")` is true.
RegenCall ==
    /\ upc = "buttons"
    /\ click = [kind |-> "regen", msg |-> Cur]
    /\ Call("generate_reply", "regen")
    /\ UNCHANGED notUiVars

\* What the script does with the outcome of the call: the statement after
\* the call, or the `except` clause around it.
ScriptAfter(status, val) ==
    CASE gFn.why = "summary" ->
            /\ summaries' = Put(summaries, Cur,
                                IF status = "returned" THEN val
                                ELSE SummaryErrorPrefix \o val)
            /\ upc' = "reply"
            /\ UNCHANGED <<replies, click, uEmails, uPos, uFetchFail, rendered>>
      [] gFn.why = "reply" ->
            /\ replies' = Put(replies, Cur,
                              IF status = "returned" THEN val
                              ELSE ReplyErrorPrefix \o val)
            /\ upc' = "buttons"
            /\ rendered' = rendered \cup {Cur}
            /\ UNCHANGED <<summaries, click, uEmails, uPos, uFetchFail>>
      [] gFn.why = "regen" /\ status = "returned" ->
            /\ replies' = Put(replies, Cur, val)
            /\ Rerun
            /\ UNCHANGED summaries
      [] OTHER ->
            /\ Advance
            /\ UNCHANGED <<sessionCache, click, uEmails, uFetchFail, rendered>>

\* The call returns or raises: its frame is gone.
LLMEnds(status, val) ==
    /\ gResult' = [fn |-> gFn.name, status |-> status, val |-> val]
    /\ gFn' = NoFn
    /\ gTry' = 0
    /\ ScriptAfter(status, val)

\* The body returns the placeholder without calling the model.
BodyBlank ==
    /\ upc = "llm"
    /\ Blank(Snippet[Cur])
    /\ LLMEnds("returned", Placeholder(gFn.name))
    /\ UNCHANGED <<gCalls, gWaits, uUnread, lastSend>>
    /\ UNCHANGED notUiVars

\* llm.invoke(prompt) answers.
LLMReturns ==
    /\ upc = "llm"
    /\ ~Blank(Snippet[Cur])
    /\ gCalls' = gCalls + 1
    /\ \E r \in Responses : LLMEnds("returned", ResponseText(r))
    /\ UNCHANGED <<gWaits, uUnread, lastSend>>
    /\ UNCHANGED notUiVars

\* llm.invoke(prompt) raises: the wrapper re-raises on the last attempt,
\* otherwise sleeps and runs the body again.
LLMRaises ==
    /\ upc = "llm"
    /\ ~Blank(Snippet[Cur])
    /\ gCalls' = gCalls + 1
    /\ IF LastAttempt(gTry, PolicyLLM.max_retries)
       THEN /\ \E e \in Errors : LLMEnds("raised", e)
            /\ UNCHANGED gWaits
       ELSE /\ gTry' = gTry + 1
            /\ gWaits' = gWaits + 1
            /\ UNCHANGED <<upc, click, uEmails, uPos, uFetchFail, rendered,
                           sessionCache, gFn, gResult>>
    /\ UNCHANGED <<uUnread, lastSend>>
    /\ UNCHANGED notUiVars

\* `if st.button("Send Reply ...")` is true and send_email returns: the
\* thread is no longer unread, and the script reruns.
UiSendOk ==
    /\ upc = "buttons"
    /\ click = [kind |-> "send", msg |-> Cur]
    /\ lastSend' = [msg |-> Cur, to |-> ReplyTo(Cur)]
    /\ uUnread' = uUnread \ ThreadMsgs(ThreadOf[Cur])
    /\ Rerun
    /\ UNCHANGED <<sessionCache, llmVars>>
    /\ UNCHANGED notUiVars

\* send_email raises after its last attempt, with UNREAD removed from the
\* thread or not: the error is shown and the loop goes on.
UiSendRaises ==
    /\ upc = "buttons"
    /\ click = [kind |-> "send", msg |-> Cur]
    /\ lastSend' = [msg |-> Cur, to |-> ReplyTo(Cur)]
    /\ uUnread' \in {uUnread, uUnread \ ThreadMsgs(ThreadOf[Cur])}
    /\ Advance
    /\ UNCHANGED <<click, uEmails, uFetchFail, rendered, sessionCache, llmVars>>
    /\ UNCHANGED notUiVars

\* Neither button of this message was clicked.
NoButton ==
    /\ upc = "buttons"
    /\ click.msg # Cur
    /\ Advance
    /\ UNCHANGED <<click, uUnread, uEmails, uFetchFail, rendered,
                   sessionCache, lastSend, llmVars>>
    /\ UNCHANGED notUiVars

\* The script has run to its end; the page waits for the user.
UiEndPass ==
    /\ upc = "end"
    /\ upc' = "idle"
    /\ UNCHANGED <<click, uUnread, uEmails, uPos, uFetchFail, rendered,
                   sessionCache, lastSend, llmVars>>
    /\ UNCHANGED notUiVars

UiNext ==
    \/ Interact \/ UiFetchOk \/ UiFetchRaises
    \/ SummaryCached \/ SummaryCall \/ ReplyCached \/ ReplyCall \/ RegenCall
    \/ BodyBlank \/ LLMReturns \/ LLMRaises
    \/ UiSendOk \/ UiSendRaises \/ NoButton \/ UiEndPass

SpecUI == UiInit /\ [][UiNext]_vars

-----------------------------------------------------------------------------
(* Claims about the Main App UI, checked under SpecUI *)

\* C12 (as stated): when a pass is over and get_unread_emails did not fail
\* at the listing itself, every unread message other than the one whose
\* detail fetch failed has been rendered in that pass.
C12_OtherMessagesRendered ==
    (upc = "end" /\ uFetchFail # "list") =>
        \A m \in uUnread : m # uFetchFail => m \in rendered

\* C13 (as stated): llm.invoke is called for a message only when the session
\* holds no summary, respectively no draft, for it, or when the pass was
\* triggered by the Regenerate button of that message.
C13_NoRegenerationWithoutRequest ==
    [][gCalls' = gCalls + 1 =>
          \/ gFn.name = "summarize_email" /\ ~HasKey(summaries, Cur)
          \/ gFn.name = "generate_reply" /\ ~HasKey(replies, Cur)
          \/ gFn.name = "generate_reply"
                /\ click = [kind |-> "regen", msg |-> Cur]]_vars

\* C16 (as stated): the `to` of a send_email call is the text between the
\* angle brackets of the message's sender when it has them, otherwise the
\* whole sender.
C16_ReplyToBareAddress ==
    LET from == Sender[lastSend.msg]
        open == {i \in 1..Len(from) : from[i] = "<"}
        close == {j \in 1..Len(from) : from[j] = ">"}
        i == CHOOSE x \in open : \A y \in open : x <= y
        j == CHOOSE x \in close : \A y \in close : y <= x
    IN  lastSend # NoSend =>
            lastSend.to = IF open # {} /\ close # {} /\ i < j
                          THEN SubSeq(from, i + 1, j - 1) ELSE from

\* C17: a call of summarize_email or generate_reply on a snippet that is
\* empty or consists of whitespace only returns at its first step, with the
\* function's placeholder, no llm.invoke call and no sleep.
C17_BlankSnippetPlaceholder ==
    [][(upc = "llm" /\ \A i \in 1..Len(Snippet[Cur]) :
                          Snippet[Cur][i] \in Whitespace) =>
          /\ upc' # "llm"
          /\ gTry = 0
          /\ gCalls' = 0
          /\ gWaits' = 0
          /\ gResult' = [fn |-> gFn.name, status |-> "returned",
                         val |-> IF gFn.name = "summarize_email"
                                 THEN SummaryPlaceholder
                                 ELSE ReplyPlaceholder]]_vars

\* generate_reply has returned its placeholder for the whitespace-only
\* snippet of m2, and summarize_email's placeholder is in the session.
C17_Witness ==
    /\ upc = "buttons"
    /\ Cur = "m2"
    /\ gResult = [fn |-> "generate_reply", status |-> "returned",
                  val |-> ReplyPlaceholder]
    /\ gCalls = 0 /\ gWaits = 0
    /\ summaries["m2"] = SummaryPlaceholder
    /\ replies["m2"] = ReplyPlaceholder

====
